---------------------------- MODULE Spec2Model ----------------------------
(***************************************************************************)
(* A model of the UK SIC code pipeline:                                    *)
(*   - the section classifier get_section_for_code and the table extractor *)
(*     scrape_sic_codes of data-processing/sic-codes/sic_scraper.py;       *)
(*   - the synchronizer upload_sic_codes_to_supabase of                    *)
(*     upload_sic_to_supabase.py.                                          *)
(* Text is modelled as a sequence of one-character strings, so that        *)
(* str.strip, the "in" substring test, len and int() are computed          *)
(* character by character, as Python computes them.                        *)
(***************************************************************************)
EXTENDS Integers, Sequences, FiniteSets, TLC

VARIABLES
    \* ---- section classifier (one call of get_section_for_code)
    cl_pc,              \* "call" | "returned"
    cl_code,            \* the argument sic_code
    cl_result,          \* the returned pair <<section, section_title>>
    \* ---- table extractor (one run of scrape_sic_codes)
    ex_pc,              \* position of the run
    rows,               \* table.find_all("tr"): each row is its list of td texts
    row_i,              \* number of rows the for loop has consumed
    sic_data,           \* the accumulated records
    section_counts,     \* the per-section tally (a function on the sections met)
    out_file,           \* sic_codes.csv as this run leaves it
    \* ---- synchronizer (runs of upload_sic_to_supabase.py)
    sy_pc,              \* position of the run
    run,                \* "first" | "second" invocation of the script
    csv_file,           \* sic_codes.csv on disk (NoFile when absent)
    records,            \* list(reader)
    loop_i,             \* the for loop's i
    successful_batches,
    failed_batches,
    total_batches,      \* Unbound until the loop body assigns it
    attempts,           \* the upsert calls issued in this run, in order
    probes,             \* number of existence probes issued in this run
    sleeps,             \* number of time.sleep(1) pauses taken in this run
    table_ok,           \* what check_table_exists returned ("unknown" before)
    file_read,          \* whether this run opened and read sic_codes.csv
    remote,             \* the remote table sic_codes: its rows
    report,             \* the final status line the run printed
    exit_code,          \* the process exit status (NotExited while running)
    \* ---- history of the synchronizer's runs
    remote_at_start,    \* the remote table when the current run started
    first_run,          \* how the first run ended: its last position and counts
    rescraped           \* whether sic_codes.csv was rewritten between the runs

cl_vars == <<cl_pc, cl_code, cl_result>>
ex_vars == <<ex_pc, rows, row_i, sic_data, section_counts, out_file>>
sy_vars == <<sy_pc, run, csv_file, records, loop_i, successful_batches,
             failed_batches, total_batches, attempts, probes, sleeps,
             table_ok, file_read, remote, report, exit_code,
             remote_at_start, first_run, rescraped>>
vars == <<cl_vars, ex_vars, sy_vars>>

-----------------------------------------------------------------------------
(* Bounds of the model.                                                    *)

\* Codes probed lie within Radius of a bound of a declared range.
Radius == 2
\* Longest arbitrary (mostly malformed) code string fed to the classifier.
MaxLen == 3
\* Longest table (number of tr rows) fed to the extractor.
MaxRows == 3
\* Largest number of records in sic_codes.csv fed to the synchronizer.
MaxRecords == 120

-----------------------------------------------------------------------------
(* Text helpers: Python's str operations on sequences of characters.       *)

Whitespace == {" ", "\t", "\n"}

DigitChars == <<"0", "1", "2", "3", "4", "5", "6", "7", "8", "9">>

IsDigit(c) == \E d \in 1..10 : DigitChars[d] = c

DigitVal(c) == (CHOOSE d \in 1..10 : DigitChars[d] = c) - 1

RECURSIVE LStrip(_)
LStrip(s) ==
    IF s # <<>> /\ Head(s) \in Whitespace THEN LStrip(Tail(s)) ELSE s

RECURSIVE RStrip(_)
RStrip(s) ==
    IF s # <<>> /\ s[Len(s)] \in Whitespace
    THEN RStrip(SubSeq(s, 1, Len(s) - 1))
    ELSE s

\* str.strip(): leading and trailing whitespace removed, inner kept.
Strip(s) == RStrip(LStrip(s))

\* needle in hay (Python's substring test).
Contains(hay, needle) ==
    \E k \in 0..(Len(hay) - Len(needle)) :
        SubSeq(hay, k + 1, k + Len(needle)) = needle

\* str(n) for a natural number n.
RECURSIVE ToDigits(_)
ToDigits(n) ==
    IF n < 10 THEN <<DigitChars[n + 1]>>
    ELSE Append(ToDigits(n \div 10), DigitChars[(n % 10) + 1])

-----------------------------------------------------------------------------
(* int(sic_code) on a str: surrounding whitespace is stripped, one sign is *)
(* accepted, and the digits may be grouped by single underscores; anything *)
(* else raises ValueError.                                                 *)

ValueError == [ok |-> FALSE, val |-> 0]

\* The digits of a literal body, underscores dropped, as a number.
RECURSIVE DigitsValue(_, _)
DigitsValue(s, acc) ==
    IF s = <<>> THEN acc
    ELSE IF Head(s) = "_" THEN DigitsValue(Tail(s), acc)
    ELSE DigitsValue(Tail(s), 10 * acc + DigitVal(Head(s)))

\* A well-formed body: digits, with single underscores only between digits.
WellFormedDigits(s) ==
    /\ s # <<>>
    /\ \A k \in 1..Len(s) : IsDigit(s[k]) \/ s[k] = "_"
    /\ IsDigit(s[1]) /\ IsDigit(s[Len(s)])
    /\ \A k \in 1..(Len(s) - 1) : ~(s[k] = "_" /\ s[k + 1] = "_")

int(s) ==
    LET t    == Strip(s)
        neg  == t # <<>> /\ Head(t) = "-"
        body == IF t # <<>> /\ Head(t) \in {"+", "-"} THEN Tail(t) ELSE t
    IN  IF WellFormedDigits(body)
        THEN [ok |-> TRUE,
              val |-> IF neg THEN 0 - DigitsValue(body, 0)
                      ELSE DigitsValue(body, 0)]
        ELSE ValueError

-----------------------------------------------------------------------------
(* The section classifier.                                                 *)

\* The dict section_ranges, in declaration (= iteration) order.
section_ranges == <<
    [section |-> "Section A", min_code |-> 1110,  max_code |-> 3220],
    [section |-> "Section B", min_code |-> 5101,  max_code |-> 9900],
    [section |-> "Section C", min_code |-> 10110, max_code |-> 33200],
    [section |-> "Section D", min_code |-> 35110, max_code |-> 35300],
    [section |-> "Section E", min_code |-> 36000, max_code |-> 39000],
    [section |-> "Section F", min_code |-> 41100, max_code |-> 43999],
    [section |-> "Section G", min_code |-> 45111, max_code |-> 47990],
    [section |-> "Section H", min_code |-> 49100, max_code |-> 53202],
    [section |-> "Section I", min_code |-> 55100, max_code |-> 56302],
    [section |-> "Section J", min_code |-> 58110, max_code |-> 63990],
    [section |-> "Section K", min_code |-> 64110, max_code |-> 66300],
    [section |-> "Section L", min_code |-> 68100, max_code |-> 68320],
    [section |-> "Section M", min_code |-> 69101, max_code |-> 75000],
    [section |-> "Section N", min_code |-> 77110, max_code |-> 82990],
    [section |-> "Section O", min_code |-> 84110, max_code |-> 84300],
    [section |-> "Section P", min_code |-> 85100, max_code |-> 85600],
    [section |-> "Section Q", min_code |-> 86101, max_code |-> 88990],
    [section |-> "Section R", min_code |-> 90010, max_code |-> 93290],
    [section |-> "Section S", min_code |-> 94110, max_code |-> 96090],
    [section |-> "Section T", min_code |-> 97000, max_code |-> 98200],
    [section |-> "Section U", min_code |-> 99000, max_code |-> 99999] >>

\* The dict section_titles.
section_titles ==
    [s \in {section_ranges[k].section : k \in 1..Len(section_ranges)} |->
        CASE s = "Section A" -> "Agriculture, Forestry and Fishing"
          [] s = "Section B" -> "Mining and Quarrying"
          [] s = "Section C" -> "Manufacturing"
          [] s = "Section D" -> "Electricity, Gas, Steam and Air Conditioning Supply"
          [] s = "Section E" -> "Water Supply, Sewerage, Waste Management and Remediation Activities"
          [] s = "Section F" -> "Construction"
          [] s = "Section G" -> "Wholesale and Retail Trade; Repair of Motor Vehicles and Motorcycles"
          [] s = "Section H" -> "Transportation and Storage"
          [] s = "Section I" -> "Accommodation and Food Service Activities"
          [] s = "Section J" -> "Information and Communication"
          [] s = "Section K" -> "Financial and Insurance Activities"
          [] s = "Section L" -> "Real Estate Activities"
          [] s = "Section M" -> "Professional, Scientific and Technical Activities"
          [] s = "Section N" -> "Administrative and Support Service Activities"
          [] s = "Section O" -> "Public Administration and Defence; Compulsory Social Security"
          [] s = "Section P" -> "Education"
          [] s = "Section Q" -> "Human Health and Social Work Activities"
          [] s = "Section R" -> "Arts, Entertainment and Recreation"
          [] s = "Section S" -> "Other Service Activities"
          [] s = "Section T" -> "Activities of Households as Employers"
          [] s = "Section U" -> "Activities of Extraterritorial Organisations and Bodies"]

Unclassified == <<"Unclassified", "Unclassified">>

\* A faulty range test: the two bounds are left out.
InRangeExclusive(r, code_num) == r.min_code < code_num /\ code_num < r.max_code

\* min_code <= code_num <= max_code
InRange(r, code_num) == r.min_code <= code_num /\ code_num <= r.max_code

get_section_for_code(sic_code) ==
    LET code_num == int(sic_code)
        hits == {k \in 1..Len(section_ranges) :
                    InRange(section_ranges[k], code_num.val)}
    IN  IF ~code_num.ok THEN Unclassified          \* except ValueError
        ELSE IF hits = {} THEN Unclassified        \* not found in any range
        ELSE LET k == CHOOSE h \in hits : \A g \in hits : h <= g
             IN  <<section_ranges[k].section,
                   section_titles[section_ranges[k].section]>>

-----------------------------------------------------------------------------
(* Inputs of the classifier: the decimal text of every integer within      *)
(* Radius of a bound of a declared range, plain and with the formatting    *)
(* int() may meet, and every string over Alphabet of at most MaxLen        *)
(* characters.                                                             *)

ProbeInts ==
    {0} \cup UNION {
        {n \in (section_ranges[k].min_code - Radius)..(section_ranges[k].min_code + Radius) : n >= 0}
        \cup
        {n \in (section_ranges[k].max_code - Radius)..(section_ranges[k].max_code + Radius) : n >= 0}
        : k \in 1..Len(section_ranges)}

Decorations ==
    {"plain", "plus", "minus", "zero", "lspace", "rspace", "underscore",
     "underscores", "letter", "innerspace", "signspace"}

Decorate(d, kind) ==
    CASE kind = "plain"       -> d
      [] kind = "plus"        -> <<"+">> \o d
      [] kind = "minus"       -> <<"-">> \o d
      [] kind = "zero"        -> <<"0">> \o d
      [] kind = "lspace"      -> <<" ">> \o d
      [] kind = "rspace"      -> d \o <<"\n">>
      [] kind = "underscore"  -> <<Head(d)>> \o <<"_">> \o Tail(d)
      [] kind = "underscores" -> <<Head(d)>> \o <<"_", "_">> \o Tail(d)
      [] kind = "letter"      -> d \o <<"A">>
      [] kind = "innerspace"  -> <<Head(d)>> \o <<" ">> \o Tail(d)
      [] kind = "signspace"   -> <<"+", " ">> \o d

Alphabet == {"0", "1", "9", "+", "-", "_", " ", "A"}

ShortStrings == UNION {[1..n -> Alphabet] : n \in 0..MaxLen}

CodeInputs ==
    {Decorate(ToDigits(n), k) : n \in ProbeInts, k \in Decorations}
    \cup ShortStrings

NoResult == <<"", "">>

-----------------------------------------------------------------------------
(* Values shared by the three specifications.                              *)

NoFile == [exists |-> FALSE, rows |-> <<>>]

\* A local name the run has not assigned yet.
Unbound == [bound |-> FALSE, value |-> 0]
Bound(n) == [bound |-> TRUE, value |-> n]

\* The process is still running.
NotExited == [exited |-> FALSE, status |-> 0]
Exited(n) == [exited |-> TRUE, status |-> n]

\* The first run has not ended yet.
NoRun == [state |-> "none", successful |-> 0, failed |-> 0]

ClassifierIdle ==
    /\ cl_pc = "idle" /\ cl_code = <<>> /\ cl_result = NoResult

ExtractorIdle ==
    /\ ex_pc = "idle" /\ rows = <<>> /\ row_i = 0 /\ sic_data = <<>>
    /\ section_counts = <<>> /\ out_file = NoFile

SynchronizerIdle ==
    /\ sy_pc = "idle" /\ run = "first" /\ csv_file = NoFile /\ records = <<>>
    /\ loop_i = 0 /\ successful_batches = 0 /\ failed_batches = 0
    /\ total_batches = Unbound /\ attempts = <<>> /\ probes = 0 /\ sleeps = 0
    /\ table_ok = "unknown" /\ file_read = FALSE /\ remote = <<>>
    /\ report = "none" /\ exit_code = NotExited
    /\ remote_at_start = <<>> /\ first_run = NoRun /\ rescraped = FALSE

-----------------------------------------------------------------------------
(* Specification of the classifier: one call on any input.                 *)

InitClassifier ==
    /\ cl_pc = "call"
    /\ cl_code \in CodeInputs
    /\ cl_result = NoResult
    /\ ExtractorIdle
    /\ SynchronizerIdle

Classify ==
    /\ cl_pc = "call"
    /\ cl_result' = get_section_for_code(cl_code)
    /\ cl_pc' = "returned"
    /\ UNCHANGED <<cl_code, ex_vars, sy_vars>>

NextClassifier == Classify

SpecClassifier == InitClassifier /\ [][NextClassifier]_vars

-----------------------------------------------------------------------------
(* The table extractor scrape_sic_codes.                                   *)

SectionWord == <<"S", "e", "c", "t", "i", "o", "n">>

\* The rows a page may hold: each is the list of the texts of its td cells.
RowKinds == {
    <<>>,                                                   \* a th header row
    << <<"1", "1", "1", "0">> >>,                           \* one cell
    << <<"1", "1", "1", "0">>, <<"x">>, <<"y">> >>,         \* three cells
    << SectionWord \o <<" ", "A">>, <<"x">> >>,             \* a section header
    << <<"x">> \o SectionWord, <<"x">> >>,                  \* "Section" inside
    << <<>>, <<"x">> >>,                                    \* empty code
    << <<" ", "\n">>, <<"x">> >>,                           \* blank code
    << <<"1","2","3","4","5","6","7","8","9","0","1">>, <<"x">> >>,  \* 11 chars
    << <<"1","2","3","4","5","6","7","8","9","0">>, <<"x">> >>,      \* 10 chars
    << <<" ", "1", "1", "1", "0", " ">>, <<" ", "x", " ">> >>,       \* padded
    << <<"9", "9", "9", "9", "9">>, <<"y">> >>,
    << <<"A", "B", "C">>, <<"x">> >>,
    << <<"4", "0", "0", "0", "0">>, <<"y">> >> }            \* in a gap

Tables == UNION {[1..n -> RowKinds] : n \in 0..MaxRows}

\* A faulty filter: the length threshold is off by one.
SkipRowTooShort(sic_code) ==
    sic_code = <<>> \/ Contains(sic_code, SectionWord) \/ Len(sic_code) >= 10

\* not sic_code or "Section" in sic_code or len(sic_code) > 10
SkipRow(sic_code) ==
    sic_code = <<>> \/ Contains(sic_code, SectionWord) \/ Len(sic_code) > 10

\* The body of the for loop on one row: the records list after it.
ProcessedRow(cells, data) ==
    IF Len(cells) = 2
    THEN LET sic_code    == Strip(cells[1])
             description == Strip(cells[2])
             sec         == get_section_for_code(sic_code)
         IN  IF SkipRow(sic_code) THEN data
             ELSE Append(data, [sic_code      |-> sic_code,
                                description   |-> description,
                                section       |-> sec[1],
                                section_title |-> sec[2]])
    ELSE data

\* section_counts[section] = section_counts.get(section, 0) + 1, over data.
RECURSIVE CountSections(_, _)
CountSections(data, counts) ==
    IF data = <<>> THEN counts
    ELSE LET section == Head(data).section
         IN  CountSections(Tail(data),
                 IF section \in DOMAIN counts
                 THEN [counts EXCEPT ![section] = @ + 1]
                 ELSE counts @@ (section :> 1))

InitExtractor ==
    /\ ex_pc = "start"
    /\ rows = <<>> /\ row_i = 0 /\ sic_data = <<>>
    /\ section_counts = <<>>
    /\ out_file = NoFile
    /\ ClassifierIdle
    /\ SynchronizerIdle

\* requests.get raises a RequestException.
FetchError ==
    /\ ex_pc = "start"
    /\ ex_pc' = "fetch_error"
    /\ UNCHANGED <<rows, row_i, sic_data, section_counts, out_file, cl_vars, sy_vars>>

\* soup.find("table") is None.
NoTable ==
    /\ ex_pc = "start"
    /\ ex_pc' = "no_table"
    /\ UNCHANGED <<rows, row_i, sic_data, section_counts, out_file, cl_vars, sy_vars>>

\* The page holds a table: sic_data = [], rows = table.find_all("tr").
FoundTable ==
    /\ ex_pc = "start"
    /\ \E t \in Tables : rows' = t
    /\ row_i' = 0
    /\ sic_data' = <<>>
    /\ ex_pc' = "rows"
    /\ UNCHANGED <<section_counts, out_file, cl_vars, sy_vars>>

\* One iteration of "for row in rows".
ProcessRow ==
    /\ ex_pc = "rows"
    /\ row_i < Len(rows)
    /\ sic_data' = ProcessedRow(rows[row_i + 1], sic_data)
    /\ row_i' = row_i + 1
    /\ UNCHANGED <<ex_pc, rows, section_counts, out_file, cl_vars, sy_vars>>

\* A faulty NoData: the emptiness check is missing and the run goes on.
NoDataUnchecked ==
    /\ ex_pc = "rows"
    /\ row_i = Len(rows)
    /\ sic_data = <<>>
    /\ ex_pc' = "write"
    /\ UNCHANGED <<rows, row_i, sic_data, section_counts, out_file, cl_vars, sy_vars>>

\* if not sic_data: print(...); return
NoData ==
    /\ ex_pc = "rows"
    /\ row_i = Len(rows)
    /\ sic_data = <<>>
    /\ ex_pc' = "no_data"
    /\ UNCHANGED <<rows, row_i, sic_data, section_counts, out_file, cl_vars, sy_vars>>

\* The tally of the records per section, printed before the file is written.
Tally ==
    /\ ex_pc = "rows"
    /\ row_i = Len(rows)
    /\ sic_data # <<>>
    /\ section_counts' = CountSections(sic_data, <<>>)
    /\ ex_pc' = "write"
    /\ UNCHANGED <<rows, row_i, sic_data, out_file, cl_vars, sy_vars>>

\* The file is opened for writing and every record is written.
WriteCsv ==
    /\ ex_pc = "write"
    /\ out_file' = [exists |-> TRUE, rows |-> sic_data]
    /\ ex_pc' = "done"
    /\ UNCHANGED <<rows, row_i, sic_data, section_counts, cl_vars, sy_vars>>

\* The write raises (caught by "except Exception"): either open() failed and
\* nothing was written, or the file was opened and holds the rows written so far.
WriteCsvError ==
    /\ ex_pc = "write"
    /\ \/ out_file' = out_file
       \/ \E k \in 0..(Len(sic_data) - 1) :
              out_file' = [exists |-> TRUE, rows |-> SubSeq(sic_data, 1, k)]
    /\ ex_pc' = "processing_error"
    /\ UNCHANGED <<rows, row_i, sic_data, section_counts, cl_vars, sy_vars>>

NextExtractor ==
    \/ FetchError
    \/ NoTable
    \/ FoundTable
    \/ ProcessRow
    \/ NoData
    \/ Tally
    \/ WriteCsv
    \/ WriteCsvError

SpecExtractor == InitExtractor /\ [][NextExtractor]_vars

-----------------------------------------------------------------------------
(* The synchronizer upload_sic_to_supabase.py.                             *)

batch_size == 50

\* The row of sic_codes.csv at position k of a file of n rows. With dup, the
\* last row repeats the code of the first with another description.
FileRow(k, n, dup) ==
    IF dup /\ k = n /\ n > 1
    THEN [sic_code |-> ToDigits(1), description |-> "again",
          section |-> "Section A", section_title |-> "Agriculture, Forestry and Fishing"]
    ELSE [sic_code |-> ToDigits(k), description |-> "old",
          section |-> "Section A", section_title |-> "Agriculture, Forestry and Fishing"]

\* The sizes of the files tried: the largest, and those that fill the last
\* batch exactly, overflow it by one record or leave one record of it free.
RecordCounts ==
    {MaxRecords} \cup
    {n \in 0..MaxRecords : (n % batch_size) \in {0, 1, batch_size - 1}}

Files ==
    {NoFile} \cup
    {[exists |-> TRUE, rows |-> [k \in 1..n |-> FileRow(k, n, dup)]] :
        n \in RecordCounts, dup \in BOOLEAN}

\* The file after the extractor ran again on a page whose first description
\* changed.
Rescraped(file) ==
    [file EXCEPT !.rows = [@ EXCEPT ![1] = [@ EXCEPT !.description = "new"]]]

\* What the remote table may hold before the first run: nothing, or a row
\* of an earlier upload and a row no file names.
InitialTables ==
    { <<>>,
      << [sic_code |-> ToDigits(0), description |-> "other",
          section |-> "Unclassified", section_title |-> "Unclassified"],
         [sic_code |-> ToDigits(1), description |-> "stale",
          section |-> "Section A", section_title |-> "Agriculture, Forestry and Fishing"] >> }

\* A faulty upsert: an insert that ignores the conflict key.
Insert(table, data) == table \o data

\* upsert(data, on_conflict="sic_code"): row by row, in order, the row holding
\* the key is overwritten in place and a row with a new key is inserted. So a
\* key ends with the last row of data that names it; the keys already stored
\* keep their place, and the new ones follow in the order data first names them.
Upsert(table, data) ==
    LET Last(code) ==
            data[CHOOSE k \in 1..Len(data) :
                    /\ data[k].sic_code = code
                    /\ \A j \in (k + 1)..Len(data) : data[j].sic_code # code]
        Stored(code) == \E k \in 1..Len(table) : table[k].sic_code = code
        Named(code)  == \E k \in 1..Len(data) : data[k].sic_code = code
        fresh == {k \in 1..Len(data) :
                    /\ ~Stored(data[k].sic_code)
                    /\ \A j \in 1..(k - 1) : data[j].sic_code # data[k].sic_code}
        kept  == [k \in 1..Len(table) |->
                    IF Named(table[k].sic_code) THEN Last(table[k].sic_code)
                    ELSE table[k]]
        added == [p \in 1..Cardinality(fresh) |->
                    Last(data[CHOOSE k \in fresh :
                            Cardinality({j \in fresh : j <= k}) = p].sic_code)]
    IN  kept \o added

\* A faulty slice: it stops one record early.
SliceShort(list, lo, hi) ==
    SubSeq(list, lo + 1, IF hi - 1 < Len(list) THEN hi - 1 ELSE Len(list))

\* list[lo : hi] for 0 <= lo <= hi: the end is clamped to the list.
Slice(list, lo, hi) ==
    SubSeq(list, lo + 1, IF hi < Len(list) THEN hi ELSE Len(list))

\* data_to_upload: the four fields of every record of the batch.
DataToUpload(batch) ==
    [k \in 1..Len(batch) |->
        [sic_code      |-> batch[k].sic_code,
         description   |-> batch[k].description,
         section       |-> batch[k].section,
         section_title |-> batch[k].section_title]]

InitSynchronizer ==
    /\ sy_pc = "startup"
    /\ run = "first"
    /\ csv_file \in Files
    /\ records = <<>>
    /\ loop_i = 0
    /\ successful_batches = 0
    /\ failed_batches = 0
    /\ total_batches = Unbound
    /\ attempts = <<>>
    /\ probes = 0
    /\ sleeps = 0
    /\ table_ok = "unknown"
    /\ file_read = FALSE
    /\ remote \in InitialTables
    /\ report = "none"
    /\ exit_code = NotExited
    /\ remote_at_start = remote
    /\ first_run = NoRun
    /\ rescraped = FALSE
    /\ ClassifierIdle
    /\ ExtractorIdle

\* What no step of a run changes.
sy_fixed == <<run, csv_file, remote_at_start, first_run, rescraped>>

\* SUPABASE_URL or SUPABASE_KEY is not set: exit(1) at import.
ConfigMissing ==
    /\ sy_pc = "startup"
    /\ sy_pc' = "config_error"
    /\ report' = "config_missing"
    /\ exit_code' = Exited(1)
    /\ UNCHANGED <<records, loop_i, successful_batches, failed_batches,
                   total_batches, attempts, probes, sleeps, table_ok,
                   file_read, remote, sy_fixed, cl_vars, ex_vars>>

\* create_client raises: exit(1) at import.
ConnectError ==
    /\ sy_pc = "startup"
    /\ sy_pc' = "config_error"
    /\ report' = "connect_error"
    /\ exit_code' = Exited(1)
    /\ UNCHANGED <<records, loop_i, successful_batches, failed_batches,
                   total_batches, attempts, probes, sleeps, table_ok,
                   file_read, remote, sy_fixed, cl_vars, ex_vars>>

\* The client is created and upload_sic_codes_to_supabase is called.
Connected ==
    /\ sy_pc = "startup"
    /\ sy_pc' = "START"
    /\ UNCHANGED <<records, loop_i, successful_batches, failed_batches,
                   total_batches, attempts, probes, sleeps, table_ok,
                   file_read, remote, report, exit_code, sy_fixed,
                   cl_vars, ex_vars>>

\* A faulty TableCheckFails: the probe's answer is ignored and the run goes on.
TableCheckIgnored ==
    /\ sy_pc = "START"
    /\ probes' = probes + 1
    /\ table_ok' = "no"
    /\ sy_pc' = "open"
    /\ UNCHANGED <<records, loop_i, successful_batches, failed_batches,
                   total_batches, attempts, sleeps, file_read, remote,
                   report, exit_code, sy_fixed, cl_vars, ex_vars>>

\* check_table_exists: the select raises, it returns False; sys.exit(1).
TableCheckFails ==
    /\ sy_pc = "START"
    /\ probes' = probes + 1
    /\ table_ok' = "no"
    /\ sy_pc' = "ABORT"
    /\ report' = "table_missing"
    /\ exit_code' = Exited(1)
    /\ UNCHANGED <<records, loop_i, successful_batches, failed_batches,
                   total_batches, attempts, sleeps, file_read, remote,
                   sy_fixed, cl_vars, ex_vars>>

\* check_table_exists: the select succeeds, it returns True.
TableCheckOk ==
    /\ sy_pc = "START"
    /\ probes' = probes + 1
    /\ table_ok' = "yes"
    /\ sy_pc' = "open"
    /\ UNCHANGED <<records, loop_i, successful_batches, failed_batches,
                   total_batches, attempts, sleeps, file_read, remote,
                   report, exit_code, sy_fixed, cl_vars, ex_vars>>

\* open("sic_codes.csv") raises: the outer handler prints and exit(1).
OpenError ==
    /\ sy_pc = "open"
    /\ ~csv_file.exists
    /\ sy_pc' = "error_exit"
    /\ report' = "upload_error"
    /\ exit_code' = Exited(1)
    /\ UNCHANGED <<records, loop_i, successful_batches, failed_batches,
                   total_batches, attempts, probes, sleeps, table_ok,
                   file_read, remote, sy_fixed, cl_vars, ex_vars>>

\* records = list(reader); the counters are set to 0 and the loop starts.
ReadFile ==
    /\ sy_pc = "open"
    /\ csv_file.exists
    /\ records' = csv_file.rows
    /\ file_read' = TRUE
    /\ successful_batches' = 0
    /\ failed_batches' = 0
    /\ loop_i' = 0
    /\ sy_pc' = "BATCH_LOOP"
    /\ UNCHANGED <<total_batches, attempts, probes, sleeps, table_ok, remote,
                   report, exit_code, sy_fixed, cl_vars, ex_vars>>

\* One iteration of "for i in range(0, total_records, batch_size)" whose
\* upsert ends in outcome: the batch is cut and sent, one counter grows, and
\* the run sleeps. The upsert is one statement of the store: when it fails,
\* none of its rows is stored.
AttemptBatch(outcome) ==
    /\ sy_pc = "BATCH_LOOP"
    /\ loop_i < Len(records)
    /\ LET batch          == Slice(records, loop_i, loop_i + batch_size)
           current_batch  == (loop_i \div batch_size) + 1
           data_to_upload == DataToUpload(batch)
       IN  /\ total_batches' =
                  Bound((Len(records) + batch_size - 1) \div batch_size)
           /\ attempts' = Append(attempts, [batch   |-> current_batch,
                                            data    |-> data_to_upload,
                                            outcome |-> outcome])
           /\ remote' = IF outcome = "success"
                        THEN Upsert(remote, data_to_upload)
                        ELSE remote
    /\ successful_batches' =
           IF outcome = "success" THEN successful_batches + 1
           ELSE successful_batches
    /\ failed_batches' =
           IF outcome = "success" THEN failed_batches ELSE failed_batches + 1
    /\ sleeps' = sleeps + 1
    /\ loop_i' = loop_i + batch_size
    /\ UNCHANGED <<sy_pc, records, probes, table_ok, file_read, report,
                   exit_code, sy_fixed, cl_vars, ex_vars>>

\* The upsert returns a response without an error.
UploadSuccess == AttemptBatch("success")

\* The upsert returns a response whose error is set.
UploadErrorResponse == AttemptBatch("error_response")

\* A faulty UploadException: the exception leaves the loop and reaches the
\* outer handler.
UploadExceptionEscapes ==
    /\ sy_pc = "BATCH_LOOP"
    /\ loop_i < Len(records)
    /\ sy_pc' = "error_exit"
    /\ report' = "upload_error"
    /\ exit_code' = Exited(1)
    /\ UNCHANGED <<records, loop_i, successful_batches, failed_batches,
                   total_batches, attempts, probes, sleeps, table_ok,
                   file_read, remote, sy_fixed, cl_vars, ex_vars>>

\* The upsert raises: "except Exception as batch_error".
UploadException == AttemptBatch("exception")

\* The loop is over and total_batches was never assigned (no record): the
\* summary's second line raises NameError, caught by the outer handler, exit(1).
SummaryNameError ==
    /\ sy_pc = "BATCH_LOOP"
    /\ loop_i >= Len(records)
    /\ ~total_batches.bound
    /\ sy_pc' = "error_exit"
    /\ report' = "upload_error"
    /\ exit_code' = Exited(1)
    /\ UNCHANGED <<records, loop_i, successful_batches, failed_batches,
                   total_batches, attempts, probes, sleeps, table_ok,
                   file_read, remote, sy_fixed, cl_vars, ex_vars>>

\* The loop is over: the summary prints the three counts.
Summary ==
    /\ sy_pc = "BATCH_LOOP"
    /\ loop_i >= Len(records)
    /\ total_batches.bound
    /\ sy_pc' = "SUMMARY"
    /\ UNCHANGED <<records, loop_i, successful_batches, failed_batches,
                   total_batches, attempts, probes, sleeps, table_ok,
                   file_read, remote, report, exit_code, sy_fixed,
                   cl_vars, ex_vars>>

\* if failed_batches == 0: "completed successfully" else "completed with ..."
FinalStatus == IF failed_batches = 0 THEN "success" ELSE "failed"

\* The final status line is printed and the function returns.
Finish ==
    /\ sy_pc = "SUMMARY"
    /\ report' = FinalStatus
    /\ sy_pc' = "END"
    /\ exit_code' = Exited(0)
    /\ UNCHANGED <<records, loop_i, successful_batches, failed_batches,
                   total_batches, attempts, probes, sleeps, table_ok,
                   file_read, remote, sy_fixed, cl_vars, ex_vars>>

\* The script is started a second time, on the file given.
StartSecondRun(file) ==
    /\ run = "first"
    /\ exit_code.exited
    /\ run' = "second"
    /\ first_run' = [state |-> sy_pc, successful |-> successful_batches,
                     failed |-> failed_batches]
    /\ remote_at_start' = remote
    /\ csv_file' = file
    /\ sy_pc' = "startup"
    /\ records' = <<>>
    /\ loop_i' = 0
    /\ successful_batches' = 0
    /\ failed_batches' = 0
    /\ total_batches' = Unbound
    /\ attempts' = <<>>
    /\ probes' = 0
    /\ sleeps' = 0
    /\ table_ok' = "unknown"
    /\ file_read' = FALSE
    /\ report' = "none"
    /\ exit_code' = NotExited
    /\ UNCHANGED <<remote, cl_vars, ex_vars>>

\* The second run reads the file the first run read.
RunAgain ==
    /\ StartSecondRun(csv_file)
    /\ UNCHANGED rescraped

\* The extractor rewrote the file in between: one description changed.
RunAgainRescraped ==
    /\ csv_file.exists
    /\ csv_file.rows # <<>>
    /\ StartSecondRun(Rescraped(csv_file))
    /\ rescraped' = TRUE

NextSynchronizer ==
    \/ ConfigMissing
    \/ ConnectError
    \/ Connected
    \/ TableCheckFails
    \/ TableCheckOk
    \/ OpenError
    \/ ReadFile
    \/ UploadSuccess
    \/ UploadErrorResponse
    \/ UploadException
    \/ SummaryNameError
    \/ Summary
    \/ Finish
    \/ RunAgain
    \/ RunAgainRescraped

SpecSynchronizer == InitSynchronizer /\ [][NextSynchronizer]_vars

-----------------------------------------------------------------------------
(* Properties of the section classifier.                                   *)

\* n lies within the inclusive bounds of the k-th declared range.
Within(k, n) ==
    section_ranges[k].min_code <= n /\ n <= section_ranges[k].max_code

SectionPair(k) ==
    <<section_ranges[k].section, section_titles[section_ranges[k].section]>>

\* C1: for every code string that parses to an integer n, the result is the
\* (section, title) pair of the first declared range whose inclusive bounds
\* hold n, and ("Unclassified", "Unclassified") when none of the 21 ranges
\* holds n; "1110" is Section A / Agriculture, Forestry and Fishing and
\* "99999" is Section U.
C1_ClassifiesByInclusiveRange ==
    /\ Len(section_ranges) = 21
    /\ (cl_pc = "returned" /\ int(cl_code).ok) =>
          LET n == int(cl_code).val
          IN  /\ \A k \in 1..Len(section_ranges) :
                    (Within(k, n) /\ \A j \in 1..(k - 1) : ~Within(j, n))
                        => cl_result = SectionPair(k)
              /\ (\A k \in 1..Len(section_ranges) : ~Within(k, n))
                    => cl_result = Unclassified
    /\ (cl_pc = "returned" /\ cl_code = <<"1", "1", "1", "0">>)
          => cl_result = <<"Section A", "Agriculture, Forestry and Fishing">>
    /\ (cl_pc = "returned" /\ cl_code = <<"9", "9", "9", "9", "9">>)
          => cl_result[1] = "Section U"

\* C1's case: the upper bound of a range is classified into that range.
C1_Witness ==
    /\ cl_pc = "returned"
    /\ cl_code = <<"3", "2", "2", "0">>
    /\ cl_result = <<"Section A", "Agriculture, Forestry and Fishing">>

\* C2: every code string that is empty or holds a character that is not a
\* digit (a letter, a sign, an underscore, whitespace) is classified
\* ("Unclassified", "Unclassified").
C2_MalformedIsUnclassified ==
    (/\ cl_pc = "returned"
     /\ \/ cl_code = <<>>
        \/ \E k \in 1..Len(cl_code) : ~IsDigit(cl_code[k]))
        => cl_result = Unclassified

-----------------------------------------------------------------------------
(* Properties of the table extractor.                                      *)

\* A data row: exactly two cells, and a stripped code cell that is not
\* empty, does not hold "Section" and has at most 10 characters.
RowIsData(cells) ==
    /\ Len(cells) = 2
    /\ LET code == Strip(cells[1])
       IN  /\ Len(code) >= 1
           /\ Len(code) <= 10
           /\ \A k \in 1..(Len(code) - 6) : SubSeq(code, k, k + 6) # SectionWord

\* The record of a data row.
RecordOf(cells) ==
    [sic_code      |-> Strip(cells[1]),
     description   |-> Strip(cells[2]),
     section       |-> get_section_for_code(Strip(cells[1]))[1],
     section_title |-> get_section_for_code(Strip(cells[1]))[2]]

\* The records of the data rows among rs, in the order of rs.
RECURSIVE RecordsOf(_)
RecordsOf(rs) ==
    IF rs = <<>> THEN <<>>
    ELSE (IF RowIsData(Head(rs)) THEN <<RecordOf(Head(rs))>> ELSE <<>>)
         \o RecordsOf(Tail(rs))

RECURSIVE SumCounts(_, _)
SumCounts(counts, keys) ==
    IF keys = {} THEN 0
    ELSE LET key == CHOOSE x \in keys : TRUE
         IN  counts[key] + SumCounts(counts, keys \ {key})

\* The loop is over and at least one record was accepted.
Tallied == ex_pc \in {"write", "done", "processing_error"}

\* C9: the accumulated records are exactly the records of the data rows (two
\* cells, stripped code not empty, without "Section", at most 10 characters)
\* among the rows consumed, in table order, each with the classifier's
\* section and title; the tally counts every record once under its section.
C9_RecordsAreTheDataRows ==
    /\ ex_pc \notin {"idle", "start", "fetch_error", "no_table"}
          => sic_data = RecordsOf(SubSeq(rows, 1, row_i))
    /\ Tallied =>
          /\ row_i = Len(rows)
          /\ SumCounts(section_counts, DOMAIN section_counts) = Len(sic_data)
          /\ \A s \in DOMAIN section_counts :
                section_counts[s] =
                    Cardinality({k \in 1..Len(sic_data) : sic_data[k].section = s})

\* C9's case: a table of a section header, a 10-character code, an
\* 11-character code: only the second is kept, Unclassified.
C9_Witness ==
    /\ ex_pc = "write"
    /\ Len(rows) = 3
    /\ Len(rows[1]) = 2 /\ Contains(rows[1][1], SectionWord)
    /\ Len(rows[2]) = 2 /\ Len(rows[2][1]) = 10
    /\ Len(rows[3]) = 2 /\ Len(rows[3][1]) = 11
    /\ Len(sic_data) = 1
    /\ sic_data[1].sic_code = rows[2][1]
    /\ section_counts["Unclassified"] = 1

\* C10: the output file is written only by a run that found the table and
\* accepted at least one record; a run whose fetch failed, that found no
\* table or that accepted no record (every row has a cell count other than
\* 2) ends without writing; a run that ends well wrote every record.
C10_NoOutputWithoutRecords ==
    /\ out_file.exists =>
          /\ ex_pc \in {"done", "processing_error"}
          /\ sic_data # <<>>
    /\ ex_pc \in {"fetch_error", "no_table", "no_data"} => out_file = NoFile
    /\ (/\ ex_pc \in {"no_data", "write", "done", "processing_error"}
        /\ \A k \in 1..Len(rows) : Len(rows[k]) # 2)
          => ex_pc = "no_data" /\ sic_data = <<>>
    /\ ex_pc = "done" => out_file = [exists |-> TRUE, rows |-> sic_data]

\* C10's case: a table whose rows all have a cell count other than 2.
C10_Witness ==
    /\ ex_pc = "no_data"
    /\ Len(rows) >= 2
    /\ \A k \in 1..Len(rows) : Len(rows[k]) # 2
    /\ \E k \in 1..Len(rows) : Len(rows[k]) = 3
    /\ out_file = NoFile

-----------------------------------------------------------------------------
(* Properties of the synchronizer.                                         *)

\* ceil(n / batch_size)
Chunks(n) ==
    CHOOSE c \in 0..n : c * batch_size >= n /\ (c - 1) * batch_size < n

\* The for loop has attempted its last chunk.
LoopOver ==
    /\ file_read
    /\ \/ sy_pc \in {"SUMMARY", "END", "error_exit"}
       \/ sy_pc = "BATCH_LOOP" /\ loop_i >= Len(records)

Failures == {"error_response", "exception"}

\* C3: in a run whose pre-check succeeded, whatever the outcomes of the
\* chunks, the chunks are attempted once each and in order, every attempt
\* adds one to exactly one of successful_batches and failed_batches, a run
\* still in the loop with chunks left is not over, and once the loop is over
\* successful_batches + failed_batches is the number of chunks.
C3_EveryChunkAttemptedOnce ==
    file_read =>
        /\ table_ok = "yes"
        /\ \A k \in 1..Len(attempts) : attempts[k].batch = k
        /\ successful_batches =
              Cardinality({k \in 1..Len(attempts) : attempts[k].outcome = "success"})
        /\ failed_batches =
              Cardinality({k \in 1..Len(attempts) : attempts[k].outcome \in Failures})
        /\ successful_batches + failed_batches = Len(attempts)
        /\ Len(attempts) <= Chunks(Len(records))
        /\ Len(attempts) < Chunks(Len(records))
              => sy_pc = "BATCH_LOOP" /\ loop_i < Len(records) /\ ~exit_code.exited
        /\ LoopOver =>
              successful_batches + failed_batches = Chunks(Len(records))

\* C3's case: chunk 2 of 3 raises, chunks 1 and 3 succeed: 2 successful, 1
\* failed, 3 attempted.
C3_Witness ==
    /\ sy_pc = "SUMMARY"
    /\ Len(attempts) = 3
    /\ attempts[1].outcome = "success"
    /\ attempts[2].outcome = "exception"
    /\ attempts[3].outcome = "success"
    /\ successful_batches = 2
    /\ failed_batches = 1

\* C4: the existence probe is issued before the file is read and before any
\* upsert; a run whose probe failed is aborted with exit status 1, has read
\* no file and issued no upsert, and the remote table is as it was.
C4_ProbeBeforeAnyUpsert ==
    /\ probes <= 1
    /\ (file_read \/ attempts # <<>> \/ records # <<>>
            \/ sy_pc \in {"open", "BATCH_LOOP", "SUMMARY", "END", "error_exit"})
          => probes = 1 /\ table_ok = "yes"
    /\ table_ok = "no" =>
          /\ probes = 1
          /\ sy_pc = "ABORT"
          /\ exit_code = Exited(1)
          /\ ~file_read
          /\ records = <<>>
          /\ attempts = <<>>
          /\ remote = remote_at_start

\* C4's case: the probe fails while a file of several batches waits.
C4_Witness ==
    /\ sy_pc = "ABORT"
    /\ table_ok = "no"
    /\ csv_file.exists
    /\ Len(csv_file.rows) > batch_size
    /\ exit_code = Exited(1)
    /\ attempts = <<>>

\* The data of the attempts made, one after the other.
RECURSIVE Uploaded(_)
Uploaded(atts) ==
    IF atts = <<>> THEN <<>> ELSE Head(atts).data \o Uploaded(Tail(atts))

\* C5: with batch_size 50, chunk k is records[50(k-1) : 50k]; the chunks are
\* attempted in increasing order, none is empty, all but the last hold 50
\* records, a pause follows every attempt, and once the loop is over there
\* were ceil(N/50) attempts whose data, in order, is the whole record list
\* (120 records: 50, 50, 20).
C5_ChunksPartitionTheRecords ==
    /\ batch_size = 50
    /\ file_read =>
          LET N == Len(records)
          IN  /\ \A k \in 1..Len(attempts) :
                    /\ attempts[k].batch = k
                    /\ attempts[k].data =
                          [j \in 1..(IF 50 * k <= N THEN 50 ELSE N - 50 * (k - 1))
                              |-> records[50 * (k - 1) + j]]
                    /\ Len(attempts[k].data) >= 1
                    /\ k < Chunks(N) => Len(attempts[k].data) = 50
              /\ sleeps = Len(attempts)
              /\ LoopOver =>
                    /\ Len(attempts) = Chunks(N)
                    /\ Uploaded(attempts) = records
              /\ (LoopOver /\ N = 120) =>
                    /\ Len(attempts) = 3
                    /\ Len(attempts[1].data) = 50
                    /\ Len(attempts[2].data) = 50
                    /\ Len(attempts[3].data) = 20

\* C5's case: 120 records are sent as 50, 50 and 20.
C5_Witness ==
    /\ sy_pc = "END"
    /\ Len(records) = 120
    /\ Len(attempts) = 3
    /\ Len(attempts[1].data) = 50
    /\ Len(attempts[2].data) = 50
    /\ Len(attempts[3].data) = 20
    /\ attempts[3].data[20] = records[120]
    /\ sleeps = 3

NoDuplicateCodes(table) ==
    \A j, k \in 1..Len(table) : table[j].sic_code = table[k].sic_code => j = k

\* The table holds row for its code.
Stores(table, row) ==
    \E k \in 1..Len(table) : table[k] = row

\* The last record of the file read that names the code of record k.
LastRecord(k) ==
    records[CHOOSE j \in k..Len(records) :
                /\ records[j].sic_code = records[k].sic_code
                /\ \A i \in (j + 1)..Len(records) :
                      records[i].sic_code # records[k].sic_code]

\* The two runs ended at END.
BothRunsEnded ==
    run = "second" /\ sy_pc = "END" /\ first_run.state = "END"

C7_RunEndsAtAbortOrEnd ==
    (exit_code.exited /\ table_ok # "unknown" /\ csv_file.exists) =>
        \/ table_ok = "no" /\ sy_pc = "ABORT"
        \/ table_ok = "yes" /\ sy_pc = "END" /\ exit_code = Exited(0)

\* C8: once every chunk was attempted, the run reports success exactly when
\* failed_batches = 0 and failure exactly when failed_batches > 0.
C8_FinalStatusTellsFailures ==
    (file_read /\ exit_code.exited) =>
        /\ report = "success" <=> failed_batches = 0
        /\ report = "failed" <=> failed_batches > 0

=============================================================================
